---- MODULE Spec2Model ----
(***************************************************************************)
(* examples/rust-app/src/main.rs: the example binary that prints its build *)
(* metadata.  A string is a sequence of one-character strings, so that     *)
(* concatenation, escaping, line structure and hyphen counts are computed  *)
(* rather than assumed.                                                    *)
(***************************************************************************)
EXTENDS Integers, Sequences, FiniteSets, TLC

VARIABLES
    build,      \* the constants compiled into the binary (env!, env::consts)
    pc,         \* the statement of main about to run
    info,       \* the local `info` of main (NoInfo before line 12 has run)
    created,    \* how many Info values main has constructed
    json,       \* the Result of serde_json::to_string_pretty(&info) on line 23
    stdout,     \* every character written to standard output so far
    panic,      \* what made the process panic ("none" while it has not)
    exit_code   \* the process's exit status (Running until it exits)

vars == <<build, pc, info, created, json, stdout, panic, exit_code>>

----------------------------------------------------------------------------
(* Bounds of the model. *)

\* Longest build-time string (name, version, os, arch, revision) in Spec.
MaxLen == 2
\* Longest field value of the arbitrary Info records of SpecAny.
MaxAny == 1

\* All strings over `chars` whose length is in lo..hi.
Strs(chars, lo, hi) == UNION {[1..n -> chars] : n \in lo..hi}

----------------------------------------------------------------------------
(* The build-time constants. *)

\* CARGO_PKG_NAME: cargo rejects an empty package name; letters, '-', '_'.
PkgNames == Strs({"r", "-"}, 1, MaxLen)
\* CARGO_PKG_VERSION: a semantic version, never empty.
PkgVersions == Strs({"0", "."}, 1, MaxLen)
\* std::env::consts::OS for a supported target: "linux", "macos", ...;
\* non-empty and without a hyphen.
OsNames == Strs({"l"}, 1, MaxLen)
\* std::env::consts::ARCH: "x86_64", "aarch64", ...; non-empty, no hyphen.
ArchNames == Strs({"x", "_"}, 1, MaxLen)
\* VERGEN_GIT_SHA: whatever the build put there.
GitShas == Strs({"f"}, 0, MaxLen)

\* Field values of an arbitrary Info: a plain letter and the characters
\* JSON escapes (the quote, the backslash, the line feed).
AnyChars == {"n", "\"", "\\", "\n"}
AnyStrings == Strs(AnyChars, 0, MaxAny)

----------------------------------------------------------------------------
(* Literals of main. *)

Newline == <<"\n">>
Hyphen == "-"

Banner ==
    <<"=", "=", "=", " ", "R", "u", "s", "t", " ", "A", "p", "p", " ", "E",
      "x", "a", "m", "p", "l", "e", " ", "=", "=", "=">>
Attribution ==
    <<"T", "h", "i", "s", " ", "b", "i", "n", "a", "r", "y", " ", "w", "a",
      "s", " ", "b", "u", "i", "l", "t", " ", "u", "s", "i", "n", "g", " ",
      "t", "h", "e", " ", "H", "O", "P", "R", " ", "N", "i", "x", " ", "L",
      "i", "b", "r", "a", "r", "y", "!">>
GitRevisionPrefix ==
    <<"G", "i", "t", " ", "r", "e", "v", "i", "s", "i", "o", "n", ":", " ">>

\* Exit status of a process whose main returned, and of one that panicked.
ExitSuccess == 0
ExitPanic == 101
\* exit_code while the process is still running.
Running == -1

NoInfo == [set |-> FALSE, name |-> <<>>, version |-> <<>>, platform |-> <<>>]
NoResult == [state |-> "none", val |-> <<>>]

----------------------------------------------------------------------------
(* struct Info and its construction (lines 4-9, 12-20). *)

\* Mutant of Platform: the separator left out of the format string.
PlatformNoSeparator(os, arch) == os \o arch

\* format!("{}-{}", env::consts::OS, env::consts::ARCH)
Platform(os, arch) == os \o <<Hyphen>> \o arch

\* Mutant of NewInfo: the version field left at String::new().
NewInfoEmptyVersion(b) ==
    [set |-> TRUE,
     name |-> b.name,
     version |-> <<>>,
     platform |-> Platform(b.os, b.arch)]

\* Info { name: .., version: .., platform: .. }
NewInfo(b) ==
    [set |-> TRUE,
     name |-> b.name,
     version |-> b.version,
     platform |-> Platform(b.os, b.arch)]

----------------------------------------------------------------------------
(* serde_json::to_string_pretty(&info), with #[derive(Serialize)] of Info. *)

\* Mutant of EscapeChar: the value written raw between the quotes.
EscapeCharRaw(c) == <<c>>

\* serde_json's escape of one character of a string value.
EscapeChar(c) ==
    CASE c = "\"" -> <<"\\", "\"">>
      [] c = "\\" -> <<"\\", "\\">>
      [] c = "\n" -> <<"\\", "n">>
      [] OTHER -> <<c>>

RECURSIVE Escape(_)
Escape(s) == IF s = <<>> THEN <<>> ELSE EscapeChar(Head(s)) \o Escape(Tail(s))

\* A JSON string literal: the escaped value between double quotes.
Quoted(s) == <<"\"">> \o Escape(s) \o <<"\"">>

KeyName == <<"n", "a", "m", "e">>
KeyVersion == <<"v", "e", "r", "s", "i", "o", "n">>
KeyPlatform == <<"p", "l", "a", "t", "f", "o", "r", "m">>

\* One member of the object as PrettyFormatter writes it: two spaces of
\* indent, the key, a colon and a space, the value.
Member(key, value) == <<" ", " ">> \o Quoted(key) \o <<":", " ">> \o Quoted(value)

\* The derived Serialize visits the fields in declaration order.
ToStringPretty(i) ==
    <<"{">> \o Newline
      \o Member(KeyName, i.name) \o <<",">> \o Newline
      \o Member(KeyVersion, i.version) \o <<",">> \o Newline
      \o Member(KeyPlatform, i.platform) \o Newline
      \o <<"}">>

----------------------------------------------------------------------------
(* Reading text back: str::lines, and serde_json's reading of one member   *)
(* line (#[derive(Deserialize)] of Info).                                  *)

FirstNewline(s) ==
    IF \E i \in 1..Len(s) : s[i] = "\n"
    THEN CHOOSE i \in 1..Len(s) : s[i] = "\n" /\ \A j \in 1..(i - 1) : s[j] # "\n"
    ELSE 0

RECURSIVE Lines(_)
Lines(s) ==
    IF s = <<>> THEN <<>>
    ELSE LET i == FirstNewline(s)
         IN  IF i = 0 THEN <<s>>
             ELSE <<SubSeq(s, 1, i - 1)>> \o Lines(SubSeq(s, i + 1, Len(s)))

IsPrefix(p, s) == Len(p) <= Len(s) /\ SubSeq(s, 1, Len(p)) = p

BadScan == [ok |-> FALSE, val |-> <<>>, end |-> 0]

\* Reads a string literal's content from position i up to its closing quote:
\* the decoded value and the position of that quote.
RECURSIVE ScanString(_, _)
ScanString(s, i) ==
    IF i > Len(s) THEN BadScan
    ELSE IF s[i] = "\"" THEN [ok |-> TRUE, val |-> <<>>, end |-> i]
    ELSE IF s[i] = "\n" THEN BadScan
    ELSE IF s[i] = "\\"
    THEN IF i + 1 > Len(s) \/ s[i + 1] \notin {"\"", "\\", "n"} THEN BadScan
         ELSE LET c == IF s[i + 1] = "n" THEN "\n" ELSE s[i + 1]
                  r == ScanString(s, i + 2)
              IN  IF r.ok THEN [r EXCEPT !.val = <<c>> \o r.val] ELSE BadScan
    ELSE LET r == ScanString(s, i + 1)
         IN  IF r.ok THEN [r EXCEPT !.val = <<s[i]>> \o r.val] ELSE BadScan

BadMember == [ok |-> FALSE, key |-> <<>>, val |-> <<>>, comma |-> FALSE]

\* Reads one line `  "key": "value"` with an optional trailing comma.
ParseMember(line) ==
    IF ~IsPrefix(<<" ", " ", "\"">>, line) THEN BadMember
    ELSE LET k == ScanString(line, 4)
         IN  IF ~k.ok THEN BadMember
             ELSE LET rest == SubSeq(line, k.end + 1, Len(line))
                  IN  IF ~IsPrefix(<<":", " ", "\"">>, rest) THEN BadMember
                      ELSE LET v == ScanString(rest, 4)
                               tail == SubSeq(rest, v.end + 1, Len(rest))
                           IN  IF ~v.ok \/ tail \notin {<<>>, <<",">>}
                               THEN BadMember
                               ELSE [ok |-> TRUE, key |-> k.val, val |-> v.val,
                                     comma |-> tail = <<",">>]

----------------------------------------------------------------------------
(* main (lines 11-26), one action per statement. *)

TypeOK ==
    /\ pc \in {"l12", "l22", "l23", "l23w", "l24", "l25", "l26", "exited"}
    /\ created \in Nat
    /\ panic \in {"none", "unwrap", "stdout"}
    /\ exit_code \in {Running, ExitSuccess, ExitPanic}

InitWith(names, versions, oss, archs, shas) ==
    /\ build \in [name : names, version : versions, os : oss, arch : archs,
                  rev : shas]
    /\ pc = "l12"
    /\ info = NoInfo
    /\ created = 0
    /\ json = NoResult
    /\ stdout = <<>>
    /\ panic = "none"
    /\ exit_code = Running

\* A binary built by cargo for a supported target.
Init == InitWith(PkgNames, PkgVersions, OsNames, ArchNames, GitShas)

\* Any field values at all: what a caller of Info { .. } may pass.
InitAny == InitWith(AnyStrings, AnyStrings, AnyStrings, {<<"x">>}, {<<>>})

\* A panic unwinds out of main: the process exits with status 101 at once.
Panic(why) ==
    /\ pc' = "exited"
    /\ panic' = why
    /\ exit_code' = ExitPanic

\* Mutant of Println: a failed write is dropped (let _ = writeln!(..)).
PrintlnIgnoringErrors(text, next) ==
    /\ \/ stdout' = stdout \o text \o Newline
       \/ UNCHANGED stdout
    /\ pc' = next
    /\ UNCHANGED <<panic, exit_code>>

\* println!(text): the text and a newline reach standard output, or the
\* write fails (a closed pipe, a full device), nothing of the line is kept
\* and println! panics.
Println(text, next) ==
    \/ /\ stdout' = stdout \o text \o Newline
       /\ pc' = next
       /\ UNCHANGED <<panic, exit_code>>
    \/ /\ Panic("stdout")
       /\ UNCHANGED stdout

\* let info = Info { .. };                                       (lines 12-20)
Construct ==
    /\ pc = "l12"
    /\ info' = NewInfo(build)
    /\ created' = created + 1
    /\ pc' = "l22"
    /\ UNCHANGED <<build, json, stdout, panic, exit_code>>

\* Mutant of PrintBanner: the record is printed before it was serialized.
PrintBannerSkippingSerialize ==
    /\ pc = "l22"
    /\ Println(Banner, "l23w")
    /\ UNCHANGED <<build, info, created, json>>

\* println!("=== Rust App Example ===");                            (line 22)
PrintBanner ==
    /\ pc = "l22"
    /\ Println(Banner, "l23")
    /\ UNCHANGED <<build, info, created, json>>

\* Mutant of Serialize: unwrap_or_default() in place of unwrap().
SerializeOrDefault ==
    /\ pc = "l23"
    /\ \/ json' = [state |-> "ok", val |-> ToStringPretty(info)]
       \/ json' = [state |-> "err", val |-> <<>>]
    /\ pc' = "l23w"
    /\ UNCHANGED <<build, info, created, stdout, panic, exit_code>>

\* serde_json::to_string_pretty(&info).unwrap()          (line 23, argument)
\* The call returns a Result: Ok with the text, or Err, on which unwrap()
\* panics.
Serialize ==
    /\ pc = "l23"
    /\ \/ /\ json' = [state |-> "ok", val |-> ToStringPretty(info)]
          /\ pc' = "l23w"
          /\ UNCHANGED <<panic, exit_code>>
       \/ /\ json' = [state |-> "err", val |-> <<>>]
          /\ Panic("unwrap")
    /\ UNCHANGED <<build, info, created, stdout>>

\* Mutant of PrintInfo: the record's name is taken out of it on the way.
PrintInfoTakingName ==
    /\ pc = "l23w"
    /\ Println(json.val, "l24")
    /\ info' = [info EXCEPT !.name = <<>>]
    /\ UNCHANGED <<build, created, json>>

\* println!("{}", <the string>);                           (line 23, output)
PrintInfo ==
    /\ pc = "l23w"
    /\ Println(json.val, "l24")
    /\ UNCHANGED <<build, info, created, json>>

\* Mutant of PrintAttribution: the leading "\n" of the literal left out.
PrintAttributionNoBlankLine ==
    /\ pc = "l24"
    /\ Println(Attribution, "l25")
    /\ UNCHANGED <<build, info, created, json>>

\* println!("\nThis binary was built using the HOPR Nix Library!"); (line 24)
PrintAttribution ==
    /\ pc = "l24"
    /\ Println(Newline \o Attribution, "l25")
    /\ UNCHANGED <<build, info, created, json>>

\* Mutant of PrintRevision: the revision cut to its first character.
PrintRevisionShort ==
    /\ pc = "l25"
    /\ Println(GitRevisionPrefix
                  \o (IF build.rev = <<>> THEN <<>> ELSE <<Head(build.rev)>>),
               "l26")
    /\ UNCHANGED <<build, info, created, json>>

\* println!("Git revision: {}", env!("VERGEN_GIT_SHA"));            (line 25)
PrintRevision ==
    /\ pc = "l25"
    /\ Println(GitRevisionPrefix \o build.rev, "l26")
    /\ UNCHANGED <<build, info, created, json>>

\* main returns: the process exits with status 0.                   (line 26)
Return ==
    /\ pc = "l26"
    /\ pc' = "exited"
    /\ exit_code' = ExitSuccess
    /\ UNCHANGED <<build, info, created, json, stdout, panic>>

Next ==
    \/ Construct
    \/ PrintBanner
    \/ Serialize
    \/ PrintInfo
    \/ PrintAttribution
    \/ PrintRevision
    \/ Return

Spec == Init /\ [][Next]_vars

\* One thread runs main to its end: no step that can be taken is put off
\* for ever.
FairSpec == Spec /\ WF_vars(Next)

SpecAny == InitAny /\ [][Next]_vars

----------------------------------------------------------------------------
(* Properties of main. *)

Exited == pc = "exited"
Succeeded == Exited /\ exit_code = ExitSuccess

\* Standard output after each of the four println! statements.
AfterBanner == Banner \o Newline
AfterInfo == AfterBanner \o json.val \o Newline
AfterAttribution == AfterInfo \o Newline \o Attribution \o Newline
AfterRevision == AfterAttribution \o GitRevisionPrefix \o build.rev \o Newline

\* Something beyond the banner line has been written.
PastBanner == Len(stdout) > Len(AfterBanner)

Last(seq) == seq[Len(seq)]
Hyphens(s) == {i \in 1..Len(s) : s[i] = Hyphen}

\* C1: a run that completes successfully has written exactly the banner
\* line, the serialized record, a blank line and the attribution sentence,
\* and the 'Git revision: <revision>' line, in this order and nothing else;
\* at every moment standard output is the output of the statements run so
\* far, so no part is written twice, skipped or written early.
C1_OutputInOrder ==
    /\ Succeeded =>
         /\ json.state = "ok"
         /\ stdout = AfterRevision
         /\ Lines(stdout) =
              <<Banner>> \o Lines(json.val)
                \o <<(<<>>), Attribution, GitRevisionPrefix \o build.rev>>
    /\ pc \in {"l12", "l22"} => stdout = <<>>
    /\ pc \in {"l23", "l23w"} => stdout = AfterBanner
    /\ pc = "l24" => stdout = AfterInfo
    /\ pc = "l25" => stdout = AfterAttribution
    /\ pc = "l26" => stdout = AfterRevision

C1_Witness == Succeeded /\ build.rev # <<>> /\ Len(Lines(stdout)) = 9

\* C2: the block written for a record, whatever its field values, is the
\* five lines '{', one line per key name, version, platform in this order,
\* and '}'; each key line reads back as that key with the record's field
\* value, the first two followed by a comma and the last one not.
C2_BlockHasTheThreeFields ==
    PastBanner =>
        LET ls == Lines(stdout)
        IN  /\ Len(Lines(json.val)) = 5
            /\ Len(ls) >= 6
            /\ SubSeq(ls, 2, 6) = Lines(json.val)
            /\ ls[2] = <<"{">>
            /\ ParseMember(ls[3]) =
                 [ok |-> TRUE, key |-> KeyName, val |-> info.name, comma |-> TRUE]
            /\ ParseMember(ls[4]) =
                 [ok |-> TRUE, key |-> KeyVersion, val |-> info.version,
                  comma |-> TRUE]
            /\ ParseMember(ls[5]) =
                 [ok |-> TRUE, key |-> KeyPlatform, val |-> info.platform,
                  comma |-> FALSE]
            /\ ls[6] = <<"}">>

C2_Witness ==
    /\ PastBanner
    /\ info.name = <<"\"">>
    /\ info.version = <<"\n">>
    /\ "\\" \in {info.platform[i] : i \in 1..Len(info.platform)}

\* C3: the platform of the record is the operating-system identifier, one
\* hyphen, the architecture identifier: the string holds exactly one
\* hyphen, and what stands before and after it is non-empty.
C3_PlatformIsOsHyphenArch ==
    info.set =>
        /\ info.platform = build.os \o <<"-">> \o build.arch
        /\ Cardinality(Hyphens(info.platform)) = 1
        /\ \A h \in Hyphens(info.platform) :
             /\ SubSeq(info.platform, 1, h - 1) = build.os
             /\ SubSeq(info.platform, h + 1, Len(info.platform)) = build.arch
             /\ h > 1
             /\ h < Len(info.platform)

C3_Witness == info.set /\ Len(build.os) > 1 /\ Len(build.arch) > 1

\* C4: the record is created exactly once per run, holds the values it was
\* constructed with at every later point, and no step of main changes it.
C4_InfoNeverChanges ==
    /\ [](/\ created <= 1
          /\ info.set <=> created = 1
          /\ info.set =>
               /\ info.name = build.name
               /\ info.version = build.version
               /\ info.platform = build.os \o <<"-">> \o build.arch)
    /\ [][info.set => info' = info]_vars

C4_Witness == Succeeded /\ info.set /\ created = 1 /\ info.name = build.name

\* C5: once the record is constructed, its name, version and platform are
\* non-empty strings in every state.
C5_FieldsNonEmpty ==
    info.set => info.name # <<>> /\ info.version # <<>> /\ info.platform # <<>>

C5_Witness == info.set /\ pc = "l25" /\ Len(info.version) = 1

\* C6: when serialization fails the process has exited at once with a
\* non-zero status, nothing more can happen, and standard output holds the
\* banner line alone: no other form of the record, no attribution
\* sentence, no 'Git revision:' line.
C6_SerializeFailureAborts ==
    json.state = "err" =>
        /\ Exited
        /\ exit_code = ExitPanic
        /\ exit_code # 0
        /\ ~ENABLED Next
        /\ stdout = AfterBanner
        /\ \A i \in 1..Len(Lines(stdout)) :
             /\ Lines(stdout)[i] # Attribution
             /\ ~IsPrefix(GitRevisionPrefix, Lines(stdout)[i])

C6_Witness == json.state = "err" /\ panic = "unwrap"

\* C7 as stated: every run terminates, with status 0 if and only if
\* serialization did not fail; a non-zero status comes from such a failure
\* alone; status 0 means all four parts were written.
C7_NonZeroOnlyFromSerialization ==
    /\ <>Exited
    /\ [](Exited =>
            /\ exit_code = ExitSuccess <=> json.state # "err"
            /\ exit_code # 0 => json.state = "err"
            /\ exit_code = ExitSuccess => stdout = AfterRevision)

\* C7 (amended): every run terminates, with status 0 if and only if neither
\* serialization nor a write to standard output failed; a non-zero status
\* comes from one of these two failures alone; status 0 means all four
\* parts were written.
C7_ExitStatus ==
    /\ <>Exited
    /\ [](Exited =>
            /\ exit_code \in {ExitSuccess, ExitPanic}
            /\ exit_code = ExitSuccess <=> (json.state # "err" /\ panic # "stdout")
            /\ exit_code # 0 => (json.state = "err" \/ panic = "stdout")
            /\ exit_code # 0 <=> panic # "none"
            /\ panic = "unwrap" <=> json.state = "err"
            /\ exit_code = ExitSuccess => json.state = "ok" /\ stdout = AfterRevision)

C7_Witness == Exited /\ exit_code = ExitPanic /\ panic = "stdout" /\ json.state = "ok"

\* C8 as stated: the record is constructed before it is serialized, and it
\* is serialized before any line is written to standard output.
C8_SerializedBeforeAnyOutput ==
    /\ json.state # "none" => info.set
    /\ stdout # <<>> => json.state = "ok"

\* C8 (amended): the record is constructed before anything is written and
\* before it is serialized; the banner line alone is written before the
\* serialization, and the serialization is completed before the serialized
\* block or any later line is written; the process exits after that.
C8_StepOrder ==
    /\ stdout # <<>> => info.set
    /\ json.state # "none" => info.set /\ IsPrefix(AfterBanner, stdout)
    /\ PastBanner => json.state = "ok"
    /\ json.state = "none" => stdout \in {<<>>, AfterBanner}
    /\ Succeeded => json.state = "ok" /\ PastBanner

C8_Witness == json.state = "ok" /\ PastBanner /\ ~Exited

\* C9: the last line of a successful run is 'Git revision: ' followed by
\* the whole build-time revision, and the serialized block has the three
\* keys name, version, platform alone: the revision is no field of it.
C9_RevisionVerbatim ==
    Succeeded =>
        /\ Last(Lines(stdout)) = GitRevisionPrefix \o build.rev
        /\ Len(Lines(json.val)) = 5
        /\ <<ParseMember(Lines(json.val)[2]).key,
             ParseMember(Lines(json.val)[3]).key,
             ParseMember(Lines(json.val)[4]).key>>
             = <<KeyName, KeyVersion, KeyPlatform>>

C9_Witness == Succeeded /\ Len(build.rev) > 1

====
